---- MODULE Spec2Model ----
(***************************************************************************)
(* Model of the diag relay server (src/src/main.rs): the DiagDevice        *)
(* construction and framing code, the accept loop of main, and the reader  *)
(* thread it spawns per connection.                                        *)
(***************************************************************************)
EXTENDS Integers, Sequences, FiniteSets, TLC

\* ------------------------------------------------------------------ bounds
\* The source readCalls into a 10 MiB buffer (BUFFER_LEN, main.rs:16).  The model
\* keeps the layout (a zero-filled buffer of BUFFER_LEN bytes of which the
\* device fills a prefix) with a small length.
BUFFER_LEN == 24
\* connections a run accepts
MaxConns == 2
\* non-empty client socket readCalls per session
MaxWrites == 2
\* non-empty response batches per session
MaxBatches == 2
\* frames per encoded response in the decoder's input set
MaxFrames == 2

\* --------------------------------------------------------- program constants
USER_SPACE_DATA_TYPE == 32
MEMORY_DEVICE_MODE == 2

Conns == 1..MaxConns

\* ------------------------------------------------------------ byte helpers
\* vec![0; n]
Zeros(n) == [i \in 1..n |-> 0]

\* BufMut::put_i32_le: 4 bytes, least significant first, two's complement
\* (\div rounds down and % is never negative, so this covers v < 0)
put_i32_le(v) ==
    << v % 256, (v \div 256) % 256, (v \div 65536) % 256, (v \div 16777216) % 256 >>

\* Buf::get_i32_le on the cursor's buffer at byte offset pos (0-based)
get_i32_le(buf, pos) ==
    buf[pos + 1] + 256 * buf[pos + 2] + 65536 * buf[pos + 3]
      + 16777216 * (IF buf[pos + 4] >= 128 THEN buf[pos + 4] - 256 ELSE buf[pos + 4])

\* Buf::get_u32_le: the same four bytes.  A u32 is kept as its 32-bit pattern,
\* so the values from 2^31 up appear as the negative numbers; U32Gt and U32Eq
\* compare such a pattern, as an unsigned value, with a number below 2^31.
get_u32_le(buf, pos) == get_i32_le(buf, pos)
U32Gt(x, n) == x < 0 \/ x > n
U32Eq(x, n) == x = n

\* --------------------------------------------------------- read_response
\* Results of read_response: Ok(Some(msgs)), Ok(None), Err(IO),
\* Err(DeviceReadFailed); "Panic" is the panic of Buf::get_u32_le when fewer
\* than 4 bytes remain in the cursor.
Result(k, m) == [kind |-> k, msgs |-> m]

\* read_messages with the messages collected newest first
RECURSIVE read_messages_rev(_, _, _, _, _)
read_messages_rev(buf, pos, i, num_messages, messages) ==
    IF U32Eq(num_messages, i) THEN Result("Some", messages)
    ELSE IF Len(buf) - pos < 4 THEN Result("Panic", <<>>)
    ELSE LET msg_len == get_u32_le(buf, pos)
         IN  IF U32Gt(msg_len, Len(buf) - pos - 4)
             THEN Result("IO", <<>>)
             ELSE read_messages_rev(buf, pos + 4 + msg_len, i + 1, num_messages,
                                    << SubSeq(buf, pos + 5, pos + 4 + msg_len) >> \o messages)

\* the for loop of read_response: iteration i of 0..num_messages, cursor at pos
RECURSIVE read_messages(_, _, _, _, _)
read_messages(buf, pos, i, num_messages, messages) ==
    IF U32Eq(num_messages, i) THEN Result("Some", messages)
    ELSE IF Len(buf) - pos < 4 THEN Result("Panic", <<>>)
    ELSE LET msg_len == get_u32_le(buf, pos)
         IN  IF U32Gt(msg_len, Len(buf) - pos - 4)
             THEN Result("IO", <<>>)                    \* read_exact: UnexpectedEof
             ELSE read_messages(buf, pos + 4 + msg_len, i + 1, num_messages,
                                Append(messages, SubSeq(buf, pos + 5, pos + 4 + msg_len)))

\* TooShort with the bound off by one
TooShortOffByOne(bytes_read) == bytes_read < 3

\* the check on the number of bytes the read call returned
TooShort(bytes_read) == bytes_read < 4

\* IsUserSpaceData looking at the low byte of the tag only
IsUserSpaceDataLowByte(tag) == tag % 256 = USER_SPACE_DATA_TYPE

\* the tag test
IsUserSpaceData(tag) == tag = USER_SPACE_DATA_TYPE

\* the buffer the cursor walks: the whole BUFFER_LEN-byte vector, of which the
\* read call filled the first bytes_read bytes
CursorBuf(bytes) == bytes \o Zeros(BUFFER_LEN - Len(bytes))

\* rd is what file.read did: [err |-> TRUE] or the bytes it returned
read_response(rd) ==
    IF rd.err THEN Result("IO", <<>>)
    ELSE IF TooShort(Len(rd.bytes)) THEN Result("DeviceReadFailed", <<>>)
    ELSE LET buf == CursorBuf(rd.bytes)
         IN  IF ~IsUserSpaceData(get_i32_le(buf, 0)) THEN Result("None", <<>>)
             ELSE read_messages(buf, 8, 0, get_u32_le(buf, 4), <<>>)

\* --------------------------------------------------------- write_request
\* the buffer write_request hands to write(2)
write_request(use_mdm, req) ==
    put_i32_le(USER_SPACE_DATA_TYPE)
      \o (IF use_mdm > 0 THEN put_i32_le(-1) ELSE <<>>)
      \o req

\* ------------------------------------------------------ device construction
\* one libc::ioctl call: which request and form, its argument, whether it
\* returned 0 or more
Ioctl(form, arg, ok) == [call |-> form, arg |-> arg, ok |-> ok]

\* enable_frame_readwrite without the second form of the call
enable_frame_readwrite_once(mode, legacy_ok, extended_ok) ==
    [ok |-> legacy_ok, calls |-> << Ioctl("legacy", << mode >>, legacy_ok) >>]

\* enable_frame_readwrite: the ioctl calls it issues and whether it succeeds,
\* given what the legacy and the extended form of the ioctl would return
enable_frame_readwrite(mode, legacy_ok, extended_ok) ==
    IF legacy_ok
    THEN [ok |-> TRUE, calls |-> << Ioctl("legacy", << mode >>, TRUE) >>]
    ELSE [ok |-> extended_ok,
          calls |-> << Ioctl("legacy", << mode >>, FALSE),
                       Ioctl("extended", << mode, -1, 0 >>, extended_ok) >>]

\* determine_use_mdm: the ioctl is handed a pointer to an immutable local that
\* was initialised to 0; flag is the value the function ends up returning
\* (0, or what the kernel stored through the pointer)
determine_use_mdm(remote_ok, flag) ==
    [ok |-> remote_ok, calls |-> << Ioctl("remote_dev", << >>, remote_ok) >>,
     use_mdm |-> flag]

\* DiagDevice::new: io says what open and the ioctls return
DiagDevice_new(io) ==
    IF ~io.open THEN [ok |-> FALSE, error |-> "IO", calls |-> <<>>, use_mdm |-> 0]
    ELSE LET sw == enable_frame_readwrite(MEMORY_DEVICE_MODE, io.legacy, io.extended)
         IN  IF ~sw.ok
             THEN [ok |-> FALSE, error |-> "InitializationFailed",
                   calls |-> sw.calls, use_mdm |-> 0]
             ELSE LET rd == determine_use_mdm(io.remote, io.flag)
                  IN  IF ~rd.ok
                      THEN [ok |-> FALSE, error |-> "InitializationFailed",
                            calls |-> sw.calls \o rd.calls, use_mdm |-> 0]
                      ELSE [ok |-> TRUE, error |-> "none",
                            calls |-> sw.calls \o rd.calls, use_mdm |-> rd.use_mdm]

\* try_clone building the new handle with a default flag
try_clone_default(flag) == 0

\* DiagDevice::try_clone: the flag of the new handle
try_clone(flag) == flag

DeviceIO ==
    [open : BOOLEAN, legacy : BOOLEAN, extended : BOOLEAN, remote : BOOLEAN,
     flag : {0, 1}]

\* ------------------------------------------------------------ environment
\* response wire format: tag, message count, then length-prefixed payloads
RECURSIVE EncodeFrames(_)
EncodeFrames(frames) ==
    IF frames = <<>> THEN <<>>
    ELSE put_i32_le(Len(Head(frames))) \o Head(frames) \o EncodeFrames(Tail(frames))

Encode(frames) ==
    put_i32_le(USER_SPACE_DATA_TYPE) \o put_i32_le(Len(frames)) \o EncodeFrames(frames)

ReadOk(bytes) == [err |-> FALSE, bytes |-> bytes]
ReadErr == [err |-> TRUE, bytes |-> <<>>]

\* what the device returns to a read call in the relay runs
RelayInputs ==
    { ReadErr,
      ReadOk(<< 32, 0, 0 >>),
      ReadOk(<< 64, 0, 0, 0, 1, 0, 0, 0, 9, 0, 0, 0 >>),
      ReadOk(Encode(<< << 7 >>, << 0, 9 >> >>)),
      ReadOk(Encode(<< << 5 >> >>)),
      ReadOk(Encode(<<>>)),
      ReadOk(<< 32, 0, 0, 0, 1, 0, 0, 0, 3, 0, 0, 0, 7 >>),
      ReadOk(<< 32, 0, 0, 0, 255, 0, 0, 0 >>) }

\* the inputs of the decoder runs: the encodings of short frame sequences that
\* fit one read, every prefix of them, and every one of them with one byte
\* replaced
Payloads == { << >>, << 7 >>, << 0, 9 >> }
FrameSeqs == UNION { [1..n -> Payloads] : n \in 0..MaxFrames }
Encodings == { e \in { Encode(fs) : fs \in FrameSeqs } : Len(e) <= BUFFER_LEN }
PatchBytes == { 0, 1, 3, 33, 255 }
Truncations == UNION { { SubSeq(e, 1, k) : k \in 0..Len(e) } : e \in Encodings }
Patches ==
    UNION { { [e EXCEPT ![i] = b] : i \in 1..Len(e), b \in PatchBytes } : e \in Encodings }
CodecInputs == { ReadErr } \cup { ReadOk(b) : b \in Truncations \cup Patches }

\* what a client socket read returns: bytes, end of stream (<<>>), or an error
ClientChunks == { << 1, 2 >>, << 3 >> }

\* ------------------------------------------------------------------ state
VARIABLES
    env,          \* what the outside will do: device inputs and the quotas of a run
    proc,         \* the server process: "running", "panicked" or "exited"
    mainPc,       \* where the main thread is in the accept loop
    conn,         \* connections accepted so far; the current one is number conn
    open,         \* open handles: << n, name >> for the sockets, device handles
                  \* and channel ends of connection n
    use_mdm,      \* the use_mdm field of every open DiagDevice
    ioctls,       \* the latest DiagDevice::new: its ioctl calls, its error and
                  \* the flag it determined
    chan,         \* values pending in the channel of each connection
    rpc,          \* where the reader thread of each connection is
    readCalls,        \* per reader thread: has it started a device read call, and
                  \* how many it started after the shutdown value was sent
    toWrite,      \* msgs the reader thread has still to write to the client
    buf,          \* the receive buffer of the main thread
    bytes_read,   \* what the latest client socket read returned
    lastRead,     \* the latest device read: its thread, what read gave, the result
    devBatches,   \* log: non-empty batches read_response returned, per device handle
    clientOut,    \* log: frames written to the client sockets
    clientReads,  \* log: non-empty client socket readCalls
    devWrites     \* log: buffers handed to write(2) on the device, and whether
                  \* the reader thread was still running at that write

vars == << env, proc, mainPc, conn, open, use_mdm, ioctls, chan, rpc, readCalls, toWrite,
           buf, bytes_read, lastRead, devBatches, clientOut, clientReads, devWrites >>

logs == << devBatches, clientOut, clientReads, devWrites >>

H(n, name) == << n, name >>

\* ThreadHandles of a closure that leaves the device handle and the socket open
ThreadHandlesLeaked(n) == { H(n, "reader_exit_rx") }

\* what the reader closure owns once it is spawned, and what main keeps
ThreadHandles(n) == { H(n, "client_writer"), H(n, "dev_reader"), H(n, "reader_exit_rx") }
MainHandles(n) == { H(n, "client_reader"), H(n, "dev_writer"), H(n, "reader_exit_tx") }

Restrict(f, S) == [x \in DOMAIN f \cap S |-> f[x]]

Alive == { "poll", "polled", "read", "write" }
Terminated == { "done", "failed", "panicked" }

\* the logs and readCalls cover the latest connection: an accept clears them

\* the entries of a log that belong to connection n
OfConn(log, n) == SelectSeq(log, LAMBDA e : e.conn = n)

RelayEnv ==
    [inputs |-> RelayInputs, conns |-> MaxConns, writes |-> MaxWrites,
     batches |-> MaxBatches]

InitWith(e) ==
    /\ env = e
    /\ proc = "running"
    /\ mainPc = "accept"
    /\ conn = 0
    /\ open = {}
    /\ use_mdm = << >>
    /\ ioctls = [calls |-> << >>, error |-> "none", use_mdm |-> 0]
    /\ chan = [n \in Conns |-> 0]
    /\ rpc = [n \in Conns |-> "none"]
    /\ readCalls = [n \in Conns |-> [started |-> FALSE, late |-> 0]]
    /\ toWrite = [n \in Conns |-> << >>]
    /\ buf = << >>
    /\ bytes_read = 0
    /\ lastRead = [conn |-> 0, rd |-> ReadErr, res |-> Result("IO", << >>)]
    /\ devBatches = << >>
    /\ clientOut = << >>
    /\ clientReads = << >>
    /\ devWrites = << >>

Init == InitWith(RelayEnv)

\* ------------------------------------------------------------- main thread
\* a panic of the main thread, or main returning an error, ends the process
Panic == proc' = "panicked"
Exit == proc' = "exited"

\* listener.accept()?
Accept(ok) ==
    /\ proc = "running" /\ mainPc = "accept"
    /\ conn < env.conns
    /\ IF ok
       THEN /\ conn' = conn + 1
            /\ open' = open \cup { H(conn + 1, "client_reader") }
            /\ mainPc' = "sock_clone"
            /\ devBatches' = << >> /\ clientOut' = << >>
            /\ clientReads' = << >> /\ devWrites' = << >>
            /\ readCalls' = [n \in Conns |-> [started |-> FALSE, late |-> 0]]
            /\ UNCHANGED proc
       ELSE /\ Exit
            /\ UNCHANGED << mainPc, conn, open, logs, readCalls >>
    /\ UNCHANGED << env, use_mdm, ioctls, chan, rpc, toWrite, buf, bytes_read, lastRead >>

\* client_reader.try_clone()?
SockClone(ok) ==
    /\ proc = "running" /\ mainPc = "sock_clone"
    /\ IF ok
       THEN /\ open' = open \cup { H(conn, "client_writer") }
            /\ mainPc' = "dev_new"
            /\ UNCHANGED proc
       ELSE /\ Exit
            /\ UNCHANGED << mainPc, open >>
    /\ UNCHANGED << env, readCalls, conn, use_mdm, ioctls, chan, rpc, toWrite, buf, bytes_read,
                    lastRead, logs >>

\* DiagDevice::new().unwrap()
DevNew(io) ==
    /\ proc = "running" /\ mainPc = "dev_new"
    /\ LET r == DiagDevice_new(io)
       IN  /\ ioctls' = [calls |-> r.calls, error |-> r.error, use_mdm |-> r.use_mdm]
           /\ IF r.ok
              THEN /\ open' = open \cup { H(conn, "dev_reader") }
                   /\ use_mdm' = (H(conn, "dev_reader") :> r.use_mdm) @@ use_mdm
                   /\ mainPc' = "dev_clone"
                   /\ UNCHANGED proc
              ELSE /\ Panic
                   /\ UNCHANGED << mainPc, open, use_mdm >>
    /\ UNCHANGED << env, readCalls, conn, chan, rpc, toWrite, buf, bytes_read, lastRead, logs >>

\* dev_reader.try_clone().unwrap()
DevClone(ok) ==
    /\ proc = "running" /\ mainPc = "dev_clone"
    /\ IF ok
       THEN /\ open' = open \cup { H(conn, "dev_writer") }
            /\ use_mdm' = (H(conn, "dev_writer") :> try_clone(use_mdm[H(conn, "dev_reader")]))
                             @@ use_mdm
            /\ mainPc' = "spawn"
            /\ UNCHANGED proc
       ELSE /\ Panic
            /\ UNCHANGED << mainPc, open, use_mdm >>
    /\ UNCHANGED << env, readCalls, conn, ioctls, chan, rpc, toWrite, buf, bytes_read, lastRead, logs >>

\* mpsc::channel, thread::spawn, and the allocation of the receive buffer
Spawn ==
    /\ proc = "running" /\ mainPc = "spawn"
    /\ open' = open \cup { H(conn, "reader_exit_tx"), H(conn, "reader_exit_rx") }
    /\ chan' = [chan EXCEPT ![conn] = 0]
    /\ rpc' = [rpc EXCEPT ![conn] = "poll"]
    /\ readCalls' = [readCalls EXCEPT ![conn] = [started |-> FALSE, late |-> 0]]
    /\ toWrite' = [toWrite EXCEPT ![conn] = << >>]
    /\ buf' = Zeros(BUFFER_LEN)
    /\ bytes_read' = 0
    /\ mainPc' = "client_read"
    /\ UNCHANGED << env, proc, conn, use_mdm, ioctls, lastRead, logs >>

\* Forwarded without the slicing: the whole receive buffer
ForwardedWhole(b, n) == b

\* the slice of the receive buffer that is forwarded
Forwarded(b, n) == SubSeq(b, 1, n)

\* AfterRead for a main flow that stops forwarding once the reader has ended
AfterReadNotified(n) ==
    IF n = 0 \/ rpc[conn] \in Terminated THEN "send" ELSE "dev_write"

\* if bytes_read == 0 { .. } else forward
AfterRead(n) == IF n = 0 THEN "send" ELSE "dev_write"

\* client_reader.read(&mut buf).unwrap(): rd is an error, end of stream
\* (no bytes) or a chunk of bytes, which overwrites the start of buf
ClientRead(rd) ==
    /\ proc = "running" /\ mainPc = "client_read"
    /\ IF rd.err
       THEN /\ Panic
            /\ UNCHANGED << mainPc, buf, bytes_read, clientReads >>
       ELSE /\ Len(rd.bytes) > 0 => Len(OfConn(clientReads, conn)) < env.writes
            /\ buf' = rd.bytes \o SubSeq(buf, Len(rd.bytes) + 1, Len(buf))
            /\ bytes_read' = Len(rd.bytes)
            /\ mainPc' = AfterRead(Len(rd.bytes))
            /\ IF Len(rd.bytes) = 0
               THEN UNCHANGED clientReads
               ELSE clientReads' = Append(clientReads, [conn |-> conn, bytes |-> rd.bytes])
            /\ UNCHANGED proc
    /\ UNCHANGED << env, readCalls, conn, open, use_mdm, ioctls, chan, rpc, toWrite, lastRead,
                    devBatches, clientOut, devWrites >>

\* dev_writer.write_request(&buf[0..bytes_read]).unwrap(): one write(2) call,
\* which fails or not
DevWrite(ok) ==
    /\ proc = "running" /\ mainPc = "dev_write"
    /\ devWrites' = Append(devWrites,
           [conn |-> conn,
            readerAlive |-> rpc[conn] \in Alive,
            bytes |-> write_request(use_mdm[H(conn, "dev_writer")],
                                    Forwarded(buf, bytes_read))])
    /\ IF ok THEN mainPc' = "client_read" /\ UNCHANGED proc
             ELSE Panic /\ UNCHANGED mainPc
    /\ UNCHANGED << env, readCalls, conn, open, use_mdm, ioctls, chan, rpc, toWrite, buf,
                    bytes_read, lastRead, devBatches, clientOut, clientReads >>

\* Sender::send putting the value in twice
send_twice(pending) == pending + 2

\* Sender::send: one more value pending in the channel
send(pending) == pending + 1

\* reader_exit_tx.send(true).unwrap(): an error when the receiver is gone
Send ==
    /\ proc = "running" /\ mainPc = "send"
    /\ IF H(conn, "reader_exit_rx") \in open
       THEN /\ chan' = [chan EXCEPT ![conn] = send(@)]
            /\ mainPc' = "join"
            /\ UNCHANGED proc
       ELSE /\ Panic
            /\ UNCHANGED << mainPc, chan >>
    /\ UNCHANGED << env, readCalls, conn, open, use_mdm, ioctls, rpc, toWrite, buf, bytes_read,
                    lastRead, logs >>

\* JoinReady for a join that does not wait
JoinReadyNoWait(n) == TRUE

\* JoinHandle::join returns once the thread has finished
JoinReady(n) == rpc[n] \in Terminated

\* reader_handle.join().unwrap(); break; then the end of the loop body drops
\* what main still owns of the connection
Join ==
    /\ proc = "running" /\ mainPc = "join"
    /\ JoinReady(conn)
    /\ IF rpc[conn] = "panicked"
       THEN /\ Panic
            /\ UNCHANGED << mainPc, open, use_mdm >>
       ELSE /\ open' = open \ MainHandles(conn)
            /\ use_mdm' = Restrict(use_mdm, open')
            /\ mainPc' = "accept"
            /\ UNCHANGED proc
    /\ UNCHANGED << env, readCalls, conn, ioctls, chan, rpc, toWrite, buf, bytes_read, lastRead, logs >>

\* ----------------------------------------------------------- reader thread
\* the closure returning or unwinding drops what it owns
ThreadEnds(n, how) ==
    /\ rpc' = [rpc EXCEPT ![n] = how]
    /\ open' = open \ ThreadHandles(n)
    /\ use_mdm' = Restrict(use_mdm, open')

\* is_ok() read as is_err(): the flow returns when nothing is pending
try_recv_is_err(pending) == pending = 0

\* the flow never sees a pending value
try_recv_never(pending) == FALSE

\* reader_exit_rx.try_recv().is_ok(): is a value pending
try_recv_is_ok(pending) == pending > 0

\* if reader_exit_rx.try_recv().is_ok() { return; }: try_recv takes a pending
\* value if there is one
Poll(n) ==
    /\ proc = "running" /\ rpc[n] = "poll"
    /\ chan' = [chan EXCEPT ![n] = IF @ > 0 THEN @ - 1 ELSE 0]
    /\ IF try_recv_is_ok(chan[n])
       THEN ThreadEnds(n, "done")
       ELSE /\ rpc' = [rpc EXCEPT ![n] = "polled"]
            /\ UNCHANGED << open, use_mdm >>
    /\ UNCHANGED << env, readCalls, proc, mainPc, conn, ioctls, toWrite, buf, bytes_read,
                    lastRead, logs >>

\* main has sent the shutdown value of connection n
SignalSent(n) == chan[n] > 0 \/ (n = conn /\ mainPc = "join")

\* the flow enters dev_reader.read_response(): the read call is issued
StartRead(n) ==
    /\ proc = "running" /\ rpc[n] = "polled"
    /\ rpc' = [rpc EXCEPT ![n] = "read"]
    /\ readCalls' = [readCalls EXCEPT ![n] =
                    [started |-> TRUE,
                     late |-> IF SignalSent(n) /\ @.late < 2 THEN @.late + 1 ELSE @.late]]
    /\ UNCHANGED << env, proc, mainPc, conn, open, use_mdm, ioctls, chan, toWrite, buf,
                    bytes_read, lastRead, logs >>

\* dev_reader.read_response() returns and the match on its result
ReadReturn(n, rd) ==
    /\ proc = "running" /\ rpc[n] = "read"
    /\ LET res == read_response(rd)
       IN  /\ (res.kind = "Some" /\ res.msgs # << >>)
                  => Len(OfConn(devBatches, n)) < env.batches
           /\ lastRead' = [conn |-> n, rd |-> rd, res |-> res]
           /\ CASE res.kind = "Some" /\ res.msgs # << >> ->
                     /\ toWrite' = [toWrite EXCEPT ![n] = res.msgs]
                     /\ devBatches' = Append(devBatches, [conn |-> n, msgs |-> res.msgs])
                     /\ rpc' = [rpc EXCEPT ![n] = "write"]
                     /\ UNCHANGED << open, use_mdm >>
                [] res.kind = "Some" /\ res.msgs = << >> ->
                     /\ rpc' = [rpc EXCEPT ![n] = "poll"]
                     /\ UNCHANGED << toWrite, devBatches, open, use_mdm >>
                [] res.kind = "None" ->
                     /\ rpc' = [rpc EXCEPT ![n] = "poll"]
                     /\ UNCHANGED << toWrite, devBatches, open, use_mdm >>
                [] res.kind \in { "IO", "DeviceReadFailed" } ->
                     /\ ThreadEnds(n, "failed")
                     /\ UNCHANGED << toWrite, devBatches >>
                [] res.kind = "Panic" ->
                     /\ ThreadEnds(n, "panicked")
                     /\ UNCHANGED << toWrite, devBatches >>
    /\ UNCHANGED << env, readCalls, proc, mainPc, conn, ioctls, chan, buf, bytes_read,
                    clientOut, clientReads, devWrites >>

\* NextMsg taking the batch from the wrong end
NextMsgLast(msgs) == msgs[Len(msgs)]

\* the msg the for loop takes next
NextMsg(msgs) == Head(msgs)
RestMsgs(msgs) == Tail(msgs)

\* client_writer.write_all(&msg).unwrap() for the next msg of the batch
WriteFrame(n, ok) ==
    /\ proc = "running" /\ rpc[n] = "write"
    /\ IF ok
       THEN /\ clientOut' = Append(clientOut, [conn |-> n, frame |-> NextMsg(toWrite[n])])
            /\ toWrite' = [toWrite EXCEPT ![n] = RestMsgs(@)]
            /\ rpc' = [rpc EXCEPT ![n] = IF RestMsgs(toWrite[n]) = << >> THEN "poll" ELSE "write"]
            /\ UNCHANGED << open, use_mdm >>
       ELSE /\ ThreadEnds(n, "panicked")
            /\ UNCHANGED << clientOut, toWrite >>
    /\ UNCHANGED << env, readCalls, proc, mainPc, conn, ioctls, chan, buf, bytes_read, lastRead,
                    devBatches, clientReads, devWrites >>

\* ------------------------------------------------------------ specification
ClientReadResults == { ReadErr, ReadOk(<< >>) } \cup { ReadOk(c) : c \in ClientChunks }

Next ==
    \/ \E ok \in BOOLEAN : Accept(ok)
    \/ \E ok \in BOOLEAN : SockClone(ok)
    \/ \E io \in DeviceIO : DevNew(io)
    \/ \E ok \in BOOLEAN : DevClone(ok)
    \/ Spawn
    \/ \E rd \in ClientReadResults : ClientRead(rd)
    \/ \E ok \in BOOLEAN : DevWrite(ok)
    \/ Send
    \/ Join
    \/ \E n \in Conns : Poll(n)
    \/ \E n \in Conns : StartRead(n)
    \/ \E n \in Conns : \E rd \in env.inputs : ReadReturn(n, rd)
    \/ \E n \in Conns : \E ok \in BOOLEAN : WriteFrame(n, ok)

Spec == Init /\ [][Next]_vars

\* the decoder runs: one connection whose device returns one given input
CodecEnv(rd) == [inputs |-> { rd }, conns |-> 1, writes |-> 1, batches |-> 1]

CodecInit == \E rd \in CodecInputs : InitWith(CodecEnv(rd))

CodecSpec == CodecInit /\ [][Next]_vars

\* the threads run whenever they can, and a device read call returns; nothing
\* is assumed about when clients connect or send
MainStep == Send \/ Join \/ \E ok \in BOOLEAN : DevWrite(ok)
ReaderStep(n) ==
    \/ Poll(n)
    \/ StartRead(n)
    \/ \E rd \in env.inputs : ReadReturn(n, rd)
    \/ \E ok \in BOOLEAN : WriteFrame(n, ok)

FairSpec ==
    /\ Init /\ [][Next]_vars
    /\ WF_vars(MainStep)
    /\ \A n \in Conns : WF_vars(ReaderStep(n))

\* ------------------------------------------------------------------ claims
Active(n) == rpc[n] \in Alive \/ \E h \in open : h[1] = n

IsPrefix(s, t) == Len(s) <= Len(t) /\ SubSeq(t, 1, Len(s)) = s

RECURSIVE Flatten(_)
Flatten(ss) == IF ss = << >> THEN << >> ELSE Head(ss) \o Flatten(Tail(ss))

MsgsOf(log) == [i \in 1..Len(log) |-> log[i].msgs]
FramesOf(log) == [i \in 1..Len(log) |-> log[i].frame]

\* the latest device read returned these bytes
Decoded == lastRead.conn # 0 /\ ~lastRead.rd.err
HasTag32(bytes) == Len(bytes) >= 4 /\ SubSeq(bytes, 1, 4) = put_i32_le(32)

\* C1: at most one connection is active at any time, and while the server
\* is at accept no connection is active (reader thread joined, handles closed).
C1_SingleConnection ==
    /\ Cardinality({ n \in Conns : Active(n) }) <= 1
    /\ (proc = "running" /\ mainPc = "accept") => \A n \in Conns : ~Active(n)

C1_Witness ==
    /\ conn = 2 /\ rpc[2] = "write"
    /\ rpc[1] \in Terminated

\* C2: once the client has disconnected (the zero-byte read is seen), the main
\* flow signals the reader, joins it and is back at accept, whatever state the
\* read flow was in, given that the threads run and device reads return.
C2_DisconnectLeadsToAccept ==
    (proc = "running" /\ mainPc = "send") ~> (proc = "running" /\ mainPc = "accept")

\* C3: a device read failure or a device write failure never ends the server
\* process: no panic of the main thread comes from a failed write_request or
\* from the disconnect that follows a failed read_response.
C3_DeviceFailureNotFatal ==
    proc = "panicked" =>
        /\ mainPc # "dev_write"
        /\ ~(mainPc = "send" /\ rpc[conn] = "failed")

\* C4: a failure of DiagDevice::new or try_clone after an accept does not end
\* the server process.
C4_ConstructionFailureNotFatal ==
    proc = "panicked" => mainPc \notin { "dev_new", "dev_clone" }

\* C5: the frames written to a client socket are, in order, the frames of the
\* batches its read flow got from read_response: always a prefix of them, all
\* of them but the rest of the batch in progress while the flow runs.
C5_FrameOrder ==
    \A n \in Conns :
        LET expected == Flatten(MsgsOf(OfConn(devBatches, n)))
            written == FramesOf(OfConn(clientOut, n))
        IN  /\ IsPrefix(written, expected)
            /\ rpc[n] \in Alive => written \o toWrite[n] = expected
            /\ rpc[n] \in { "done", "failed" } => written = expected

C5_Witness ==
    \E n \in Conns :
        /\ rpc[n] = "poll"
        /\ Len(OfConn(devBatches, n)) = 2
        /\ FramesOf(OfConn(clientOut, n)) = << << 5 >>, << 7 >>, << 0, 9 >> >>

\* C6: the device writes of a session are one per non-empty client read, in
\* the same order, each ending with exactly the bytes that read returned after
\* a 4 or 8 byte header; an end-of-stream read adds no write.
C6_Forwarding ==
    \A n \in Conns :
        LET reads == OfConn(clientReads, n)
            writes == OfConn(devWrites, n)
            pending == IF n = conn /\ mainPc = "dev_write" /\ proc = "running"
                       THEN 1 ELSE 0
        IN  /\ Len(writes) + pending = Len(reads)
            /\ \A i \in 1..Len(writes) :
                   LET w == writes[i].bytes
                       r == reads[i].bytes
                   IN  /\ Len(w) - Len(r) \in { 4, 8 }
                       /\ SubSeq(w, Len(w) - Len(r) + 1, Len(w)) = r

C6_Witness ==
    /\ mainPc = "send"
    /\ Len(devWrites) = 2
    /\ clientReads[1].bytes = << 1, 2 >> /\ clientReads[2].bytes = << 3 >>

\* do the messages a tag-32 response declares fit in the bytes returned
RECURSIVE DeclaredFits(_, _, _, _)
DeclaredFits(bytes, pos, i, count) ==
    IF U32Eq(count, i) THEN TRUE
    ELSE IF Len(bytes) - pos < 4 THEN FALSE
    ELSE LET len == get_u32_le(bytes, pos)
         IN  IF U32Gt(len, Len(bytes) - pos - 4) THEN FALSE
             ELSE DeclaredFits(bytes, pos + 4 + len, i + 1, count)

Overruns(bytes) ==
    /\ Len(bytes) >= 8 /\ HasTag32(bytes)
    /\ ~DeclaredFits(bytes, 8, 0, get_u32_le(bytes, 4))

\* C7: a tag-32 response whose declared messages do not fit in the bytes the
\* device returned makes read_response fail with an IO error.
C7_OverrunIsError ==
    (Decoded /\ Overruns(lastRead.rd.bytes)) => lastRead.res.kind = "IO"

\* C8: a device read of fewer than 4 bytes makes read_response fail with
\* DeviceReadFailed, whatever the bytes.
C8_ShortRead ==
    (Decoded /\ Len(lastRead.rd.bytes) < 4) => lastRead.res.kind = "DeviceReadFailed"

C8_Witness ==
    /\ Decoded /\ lastRead.rd.bytes = << 32, 0, 0 >>
    /\ rpc[lastRead.conn] = "failed"

\* C9: a response of 4 bytes or more whose tag is not 32 makes read_response
\* return None; the step in which the read flow gets it writes nothing to the
\* client and leaves the flow at the top of its loop.
C9_OtherTagSkipped ==
    [][ \A n \in Conns :
          ( /\ rpc[n] = "read" /\ rpc'[n] # "read"
            /\ ~lastRead'.rd.err
            /\ Len(lastRead'.rd.bytes) >= 4 /\ ~HasTag32(lastRead'.rd.bytes) )
          => ( /\ lastRead'.res = Result("None", << >>)
               /\ rpc'[n] = "poll"
               /\ toWrite'[n] = << >>
               /\ clientOut' = clientOut ) ]_vars

C9_Witness ==
    /\ Decoded /\ lastRead.rd.bytes = << 32, 1, 0, 0, 1, 0, 0, 0, 1, 0, 0, 0, 7 >>
    /\ lastRead.res.kind = "None"
    /\ rpc[lastRead.conn] = "read"
    /\ clientOut = << >>

\* C10: read_response on the wire encoding of a frame sequence that fits one
\* read returns that sequence, same frames in the same order.
C10_RoundTrip ==
    \A fs \in FrameSeqs :
        (Decoded /\ lastRead.rd.bytes = Encode(fs)) => lastRead.res = Result("Some", fs)

C10_Witness ==
    /\ Decoded /\ lastRead.rd.bytes = Encode(<< << >>, << 0, 9 >> >>)
    /\ lastRead.res.kind = "Some"
    /\ Len(clientOut) = 2


\* C11: every buffer write_request builds is the little-endian tag 32, then
\* the marker -1 if and only if the flag DiagDevice::new determined is set,
\* then the payload (4 + len or 8 + len bytes); every open device handle of
\* the connection, the clone included, carries that flag.
C11_WriteRequestFraming ==
    /\ \A i \in 1..Len(devWrites) :
          LET w == devWrites[i].bytes
              payload == clientReads[i].bytes
          IN  IF ioctls.use_mdm > 0
              THEN /\ w = << 32, 0, 0, 0, 255, 255, 255, 255 >> \o payload
                   /\ Len(w) = 8 + Len(payload)
              ELSE /\ w = << 32, 0, 0, 0 >> \o payload
                   /\ Len(w) = 4 + Len(payload)
    /\ \A h \in DOMAIN use_mdm : h[1] = conn => use_mdm[h] = ioctls.use_mdm

C11_Witness ==
    /\ Len(devWrites) = 2
    /\ ioctls.use_mdm = 1
    /\ H(conn, "dev_writer") \in DOMAIN use_mdm
    /\ devWrites[2].bytes = << 32, 0, 0, 0, 255, 255, 255, 255, 3 >>


\* the device, and the client socket, of connection n have no open handle left
DeviceReleased(n) == { H(n, "dev_reader"), H(n, "dev_writer") } \cap open = { }
SocketReleased(n) == { H(n, "client_reader"), H(n, "client_writer") } \cap open = { }

\* the client-read loop of connection n has ended and its thread is joined
MainFlowEnded(n) == n < conn \/ (n = conn /\ mainPc = "accept")

\* C12: while the server waits in accept no reader thread is alive and no
\* device handle, socket or channel end is open; and the device or the socket
\* of a started session is released only once both of its flows have ended.
C12_NoLeak ==
    proc = "running" =>
        /\ mainPc = "accept" => (open = { } /\ \A n \in Conns : rpc[n] \notin Alive)
        /\ \A n \in Conns :
              (rpc[n] # "none" /\ (DeviceReleased(n) \/ SocketReleased(n)))
                  => (rpc[n] \in Terminated /\ MainFlowEnded(n))

C12_Witness ==
    /\ proc = "running" /\ mainPc = "accept" /\ conn = 2
    /\ rpc[1] = "done" /\ rpc[2] = "failed"
    /\ clientOut # << >> /\ devWrites # << >>


\* C13: the step in which a device read failure ends the read flow leaves the
\* main flow, the channel and the write-side handles as they were; after it,
\* a non-empty client read still goes to write_request, and that write call is
\* issued with the bytes read.
C13_FailureIsolation ==
    [][ /\ \A n \in Conns :
              (rpc[n] \in Alive /\ rpc'[n] = "failed")
                  => /\ proc' = proc /\ mainPc' = mainPc /\ chan' = chan
                     /\ buf' = buf /\ bytes_read' = bytes_read
                     /\ open' \cap MainHandles(n) = open \cap MainHandles(n)
                     /\ devWrites' = devWrites /\ clientReads' = clientReads
        /\ (conn \in Conns /\ rpc[conn] = "failed" /\ proc = "running")
              => /\ (mainPc = "client_read" /\ clientReads' # clientReads)
                        => mainPc' = "dev_write"
                 /\ (mainPc = "dev_write" /\ << mainPc', proc' >> # << mainPc, proc >>)
                        => /\ Len(devWrites') = Len(devWrites) + 1
                           /\ LET w == devWrites'[Len(devWrites')].bytes
                                  r == clientReads[Len(clientReads)].bytes
                              IN  SubSeq(w, Len(w) - Len(r) + 1, Len(w)) = r
      ]_vars

C13_Witness ==
    /\ proc = "running" /\ mainPc = "client_read"
    /\ rpc[conn] = "failed"
    /\ Len(devWrites) = 2
    /\ ~devWrites[1].readerAlive /\ ~devWrites[2].readerAlive


\* the reader thread of connection n panicked in write_all(..).unwrap(), with
\* msgs of its batch still to write
ClientWriteFailed(n) == rpc[n] = "panicked" /\ toWrite[n] # << >>

\* C14: a failed write of a frame to the client socket ends the read flow
\* only: the main flow's signalling and join of that thread do not end the
\* server process.
C14_ClientWriteFailureNotFatal ==
    (proc = "panicked" /\ mainPc \in { "send", "join" }) => ~ClientWriteFailed(conn)


\* C15: a reader thread starts at most one device read call after the shutdown
\* value was sent; it ends by the signal only at the poll between two read
\* calls, never out of a read call, which ends only by returning; and while
\* the thread runs, the main flow stays in join and accepts nothing.
C15_CooperativeCancel ==
    [][ /\ \A n \in Conns : readCalls'[n].late <= 1
        /\ \A n \in Conns : (rpc'[n] = "done" /\ rpc[n] # "done") => rpc[n] = "poll"
        /\ \A n \in Conns :
              (rpc[n] = "read" /\ rpc'[n] # "read")
                  => (lastRead'.conn = n /\ chan'[n] = chan[n])
        /\ (proc = "running" /\ mainPc = "join" /\ rpc[conn] \in Alive)
              => (mainPc' = "join" /\ conn' = conn /\ proc' = "running")
      ]_vars

C15_Witness ==
    /\ proc = "running" /\ mainPc = "join"
    /\ rpc[conn] = "read"
    /\ readCalls[conn].late = 1
    /\ chan[conn] = 1


\* C16 as stated: the signal is looked at only after the iteration's device
\* read call has returned, so a reader thread that ended by the signal has
\* issued at least one device read call.
C16_ReadBeforeCleanExit ==
    (conn \in Conns /\ rpc[conn] = "done") => readCalls[conn].started

\* C16 as amended: every iteration looks at the signal exactly once, at its
\* start, before its device read call is issued: the thread ends by the signal
\* exactly when that look finds a value, a read call is issued only right
\* after a look that found none, and the next look comes once the call has
\* returned and its msgs are written.  (A thread may so end without any read.)
C16_PollBeforeRead ==
    [][ \A n \in Conns :
          /\ (rpc[n] = "poll" /\ rpc'[n] # "poll")
                => rpc'[n] = (IF chan[n] > 0 THEN "done" ELSE "polled")
          /\ (rpc'[n] = "done" /\ rpc[n] # "done") => (rpc[n] = "poll" /\ chan[n] > 0)
          /\ (rpc'[n] = "polled" /\ rpc[n] # "polled") => rpc[n] = "poll"
          /\ (rpc'[n] = "read" /\ rpc[n] # "read") => rpc[n] = "polled"
          /\ (rpc'[n] = "poll" /\ rpc[n] \in Alive \ { "poll" })
                => (rpc[n] \in { "read", "write" } /\ toWrite'[n] = << >>)
      ]_vars

C16_Witness ==
    /\ proc = "running" /\ mainPc = "join"
    /\ rpc[conn] = "done"
    /\ ~readCalls[conn].started


\* the DIAG_IOCTL_SWITCH_LOGGING calls of the latest DiagDevice::new
SwitchCalls == SelectSeq(ioctls.calls, LAMBDA c : c.call \in { "legacy", "extended" })
RemoteDevCalled == \E i \in 1..Len(ioctls.calls) : ioctls.calls[i].call = "remote_dev"

\* C17: the mode switch issues the legacy call (the mode itself) first, the
\* extended call (the block {mode, -1, 0}) if and only if the legacy one
\* failed, and never a third; device construction stops there with
\* InitializationFailed if and only if all the calls issued failed, and goes
\* on to the capability call otherwise.
C17_ModeSwitchFallback ==
    ioctls.calls # << >> =>
        LET sw == SwitchCalls
        IN  /\ Len(sw) \in { 1, 2 }
            /\ sw[1] = Ioctl("legacy", << MEMORY_DEVICE_MODE >>, sw[1].ok)
            /\ Len(sw) = 2 <=> ~sw[1].ok
            /\ Len(sw) = 2 => sw[2] = Ioctl("extended", << MEMORY_DEVICE_MODE, -1, 0 >>, sw[2].ok)
            /\ (\A i \in 1..Len(sw) : ~sw[i].ok)
                  <=> (~RemoteDevCalled /\ ioctls.error = "InitializationFailed")
            /\ (\E i \in 1..Len(sw) : sw[i].ok) <=> RemoteDevCalled

C17_Witness ==
    /\ proc = "running" /\ mainPc = "dev_clone"
    /\ Len(SwitchCalls) = 2
    /\ ~SwitchCalls[1].ok /\ SwitchCalls[2].ok
    /\ ioctls.error = "none"


\* C18: a channel never holds more than one value: main puts one in only at
\* the send of the current connection, once, and moves on to join; only the
\* poll of that connection's reader thread takes it out, and that poll never
\* waits; a reader thread starts on an empty channel of its own.
C18_SingleSlotSignal ==
    [][ \A n \in Conns :
          /\ chan'[n] <= 1
          /\ chan'[n] > chan[n]
                => (n = conn /\ mainPc = "send" /\ mainPc' = "join"
                      /\ chan[n] = 0 /\ chan'[n] = 1)
          /\ chan'[n] < chan[n] => (rpc[n] = "poll" /\ rpc'[n] = "done")
          /\ (proc = "running" /\ rpc[n] = "poll") => ENABLED Poll(n)
          /\ (rpc[n] = "none" /\ rpc'[n] # "none") => (rpc'[n] = "poll" /\ chan'[n] = 0)
      ]_vars

C18_Witness ==
    /\ proc = "running" /\ conn = 2
    /\ chan[1] = 1 /\ rpc[1] = "failed"
    /\ chan[2] = 0 /\ rpc[2] = "polled"


\* C19: until main has sent the shutdown value (the session is Active, or the
\* zero-byte read was just seen), the reader thread of the connection is
\* running or has ended by an error or a panic, never by the signal.
C19_NoEarlyCleanExit ==
    (conn \in Conns /\ mainPc \in { "client_read", "dev_write", "send" })
        => rpc[conn] \in Alive \cup { "failed", "panicked" }

C19_Witness ==
    /\ proc = "running" /\ conn = 2 /\ mainPc = "dev_write"
    /\ rpc[1] = "done"
    /\ rpc[2] = "failed"


\* C20: every frame written to the socket of a connection is a msg of a batch
\* read on the device handle of the same connection; every device write
\* carries the bytes of a client read of the same connection, the one that is
\* current; a running reader thread holds the handles of its own connection;
\* and once a later connection is accepted no earlier reader thread runs.
C20_SessionIsolation ==
    /\ \A i \in 1..Len(clientOut) :
          \E j \in 1..Len(devBatches) :
              /\ devBatches[j].conn = clientOut[i].conn
              /\ \E k \in 1..Len(devBatches[j].msgs) :
                     devBatches[j].msgs[k] = clientOut[i].frame
    /\ \A i \in 1..Len(devWrites) :
          /\ devWrites[i].conn = conn
          /\ i <= Len(clientReads)
          /\ clientReads[i].conn = devWrites[i].conn
          /\ LET w == devWrites[i].bytes
                 r == clientReads[i].bytes
             IN  Len(r) <= Len(w) /\ SubSeq(w, Len(w) - Len(r) + 1, Len(w)) = r
    /\ \A i \in 1..Len(clientOut) : clientOut[i].conn = conn
    /\ \A i \in 1..Len(devBatches) : devBatches[i].conn = conn
    /\ \A n \in Conns : rpc[n] \in Alive => (n = conn /\ ThreadHandles(n) \subseteq open)

C20_Witness ==
    /\ proc = "running" /\ conn = 2
    /\ rpc[1] \in Terminated /\ rpc[2] = "read"
    /\ Len(clientOut) = 3 /\ Len(devWrites) = 2

====
